---- MODULE Spec2Model ----
(***************************************************************************)
(* CrudService (src/sqlmodel_crud/crud_service.py) bound to one Session    *)
(* and one table model.  The table model is DbPlayer of                    *)
(* src/tests/database/player.py (auto-generated integer key `id`, column   *)
(* `name`), with the inputs PlayerCreate and PlayerUpdate of that file.     *)
(*                                                                         *)
(* The session is the collaborator the service drives: its committed rows, *)
(* the instances staged for INSERT, the attribute changes made on loaded   *)
(* instances, the instances marked for DELETE, and whether a failed commit *)
(* has left it waiting for rollback().                                     *)
(***************************************************************************)
EXTENDS Integers, Sequences, FiniteSets, TLC

\* Bounds of the model.
MaxKey == 2        \* keys are 1..MaxKey: an insert needs a free key
MaxStaged == 1     \* uncommitted staged work (pending inserts + changed rows)
MaxItems == 2      \* longest list of creation inputs or of keys handed to a bulk operation
MaxPairs == 1      \* longest list of (item, changes) pairs handed to add_to_session
MaxHeld == 2       \* staged work of the caller that stages item after item

NoId == 0          \* `id: int = Field(default=None, primary_key=True)`: key not populated
None == "None"

Names == {"Ann", "Bob"}

\* PlayerBase: the columns but the key.
Fields == {"name"}

\* PlayerCreate: every column but the key.
CreateInputs == [name : Names]

\* PlayerUpdate: every field defaults to None; fields_set holds the ones the
\* caller set explicitly.
UpdateInputs ==
    UNION {{[values |-> [f \in Fields |-> IF f \in fs THEN v[f] ELSE None],
             fields_set |-> fs] : v \in CreateInputs} : fs \in SUBSET Fields}

\* The changes the batch calls are tried with: those that set a field.
BatchUpdates == {u \in UpdateInputs : u.fields_set # {}}

VARIABLES
    session,   \* the Session the service owns (self._session)
    last,      \* the call made last: its name and arguments
    result,    \* what that call returned or raised
    failed,    \* the call before the last one raised CommitFailed
    held       \* how much staged work the session held when the last call began

vars == <<session, last, result, failed, held>>

(***************************************************************************)
(* The Session.                                                            *)
(*   db      committed rows, key -> [name]                                   *)
(*   new     instances staged for INSERT, in the order they were added     *)
(*   dirty   key -> the attributes of a loaded instance that was assigned  *)
(*           to, as they read in memory                                    *)
(*   deleted keys of the instances marked for DELETE                       *)
(*   broken  a commit failed and rollback() has not been called since      *)
(*   tx      key -> the row as the last flush sent it into the open         *)
(*           transaction (INSERT of a staged instance, UPDATE of a changed  *)
(*           one); empty after commit and rollback                          *)
(*   loaded  keys of the instances the session holds unexpired: a lookup of *)
(*           one of them is answered without a query.  The caller keeps the *)
(*           instances it was handed; commit and rollback expire them all   *)
(*   calls   the Session methods the running service call has invoked      *)
(***************************************************************************)
NoRows == [k \in {} |-> None]

Call(s, name) == [s EXCEPT !.calls = Append(@, name)]

MaxId(rows) ==
    IF DOMAIN rows = {} THEN 0
    ELSE CHOOSE k \in DOMAIN rows : \A j \in DOMAIN rows : j <= k

\* The rows once the staged instances are INSERTed: the store hands each the
\* key after the largest one in use (SQLite rowid), in the order of add().
Flushed(s) ==
    LET top == MaxId(s.db)
    IN  [k \in DOMAIN s.db \cup (top + 1 .. top + Len(s.new)) |->
            IF k \in DOMAIN s.db THEN s.db[k] ELSE s.new[k - top]]

\* The rows as a query through the session sees them (it flushes first):
\* staged inserts included, the changed instances as they read in memory.
View(s) ==
    LET rows == Flushed(s)
    IN  [k \in DOMAIN rows |-> IF k \in DOMAIN s.dirty THEN s.dirty[k] ELSE rows[k]]

Instance(rows, k) == [id |-> k, name |-> rows[k].name]

\* The keys the staged instances get with their INSERT.
PendingKeys(s) == MaxId(s.db) + 1 .. MaxId(s.db) + Len(s.new)

\* autoflush: the staged INSERTs and UPDATEs go into the open transaction,
\* as the instances read in memory; a flushed instance is unexpired.
SessionFlush(s) ==
    [s EXCEPT !.tx = [k \in DOMAIN s.dirty \cup PendingKeys(s) |-> View(s)[k]],
              !.loaded = @ \cup DOMAIN s.dirty \cup PendingKeys(s)]

\* Session.add: a new instance becomes pending; one the session already
\* holds stays as it is.
SessionAdd(s, inst) ==
    Call(IF inst.id = NoId
         THEN [s EXCEPT !.new = Append(@, [name |-> inst.name])]
         ELSE s, "add")

RECURSIVE Pending(_)
Pending(insts) ==
    IF insts = <<>> THEN <<>>
    ELSE LET i == Head(insts)
         IN  (IF i.id = NoId THEN <<[name |-> i.name]>> ELSE <<>>)
             \o Pending(Tail(insts))

\* Session.add_all: add() for each instance, one call.
SessionAddAll(s, insts) == Call([s EXCEPT !.new = @ \o Pending(insts)], "add_all")

\* Session.delete: mark the instance for DELETE at the next flush.
SessionDelete(s, k) == Call([s EXCEPT !.deleted = @ \cup {k}], "delete")

\* setattr(item, key, value) on an instance of the session: a pending one
\* carries the value into its INSERT, a loaded one becomes dirty.
SetAttr(s, k, f, v) ==
    LET now == [View(s)[k] EXCEPT ![f] = v]
        top == MaxId(s.db)
    IN  IF k \in DOMAIN s.db
        THEN [s EXCEPT !.dirty = [j \in DOMAIN @ \cup {k} |-> IF j = k THEN now ELSE @[j]]]
        ELSE [s EXCEPT !.new[k - top] = now]

\* Session.commit.  `ok` is the store's answer.  A session waiting for a
\* rollback refuses; a failed commit leaves it waiting for one.
SessionCommit(s, ok) ==
    LET c == Call(s, "commit")
    IN  IF s.broken THEN [s |-> c, raised |-> TRUE]
        ELSE IF ~ok THEN [s |-> [c EXCEPT !.broken = TRUE], raised |-> TRUE]
        ELSE [s |-> [c EXCEPT
                        !.db = [k \in DOMAIN View(s) \ s.deleted |-> View(s)[k]],
                        !.new = <<>>, !.dirty = NoRows, !.deleted = {},
                        !.tx = NoRows, !.loaded = {}],
              raised |-> FALSE]

\* Session.rollback: drops everything uncommitted, session usable again.
SessionRollback(s) ==
    Call([s EXCEPT !.new = <<>>, !.dirty = NoRows, !.deleted = {}, !.broken = FALSE,
                   !.tx = NoRows, !.loaded = {}],
         "rollback")

\* An instance is persistent once its row exists for the session: committed,
\* or INSERTed by a flush.
Persistent(s, k) == k \in DOMAIN s.db \cup DOMAIN s.tx

\* Session.refresh(instance), for a persistent instance: expire it, which
\* drops what was assigned to it since the last flush; autoflush the rest;
\* reload it from the open transaction, where it reads as last flushed, or as
\* committed when no flush has sent a change of it.
SessionRefresh(s, k) ==
    LET top == MaxId(s.db)
        expired ==
            IF k \notin DOMAIN s.db THEN [s EXCEPT !.new[k - top] = s.tx[k]]
            ELSE IF k \in DOMAIN s.tx THEN [s EXCEPT !.dirty[k] = s.tx[k]]
            ELSE [s EXCEPT !.dirty = [j \in DOMAIN @ \ {k} |-> @[j]]]
    IN  Call([SessionFlush(expired) EXCEPT !.loaded = @ \cup {k}], "refresh")

\* Session.get(model, pk): the instance, or nothing.  An unexpired instance
\* of the session is handed back as it is; otherwise the session asks the
\* store, after an autoflush.
SessionGet(s, pk) ==
    LET asked == IF pk \in s.loaded THEN s ELSE SessionFlush(s)
        found == pk \in DOMAIN View(s)
    IN  [s |-> Call([asked EXCEPT !.loaded = IF found THEN @ \cup {pk} ELSE @], "get"),
         items |-> IF found THEN <<Instance(View(s), pk)>> ELSE <<>>]

\* Every order in which the store may hand back the rows with these keys.
Orderings(S) ==
    {q \in [1..Cardinality(S) -> S] : \A i, j \in 1..Cardinality(S) : q[i] = q[j] => i = j}

\* Session.exec(select(model).where(...)): the session after the query.  It
\* autoflushes first, and the rows fetched load their instances.
SessionQueried(s, keys) == Call([SessionFlush(s) EXCEPT !.loaded = @ \cup keys], "exec")

\* Session.exec(select(model).where(...)).all(): the possible result lists.
SessionExec(s, keys) ==
    {[i \in 1..Len(q) |-> Instance(View(s), q[i])] : q \in Orderings(keys)}

\* A select statement on the table: the where clauses added to it, the
\* columns to order by, and the limit and the offset, each <<>> when not set
\* and <<n>> when set to n.
select == [clauses |-> <<>>, order_by |-> <<>>, limit |-> <<>>, offset |-> <<>>]

\* The place of a row in the order of one column: the key by its number, a
\* name by the alphabet.
SortKey(rows, k, col) ==
    IF col = "id" THEN k ELSE IF rows[k][col] = "Ann" THEN 1 ELSE 2

\* ORDER BY cols puts row a strictly before row b.
RECURSIVE Before(_, _, _, _)
Before(rows, a, b, cols) ==
    IF cols = <<>> THEN FALSE
    ELSE LET x == SortKey(rows, a, Head(cols))
             y == SortKey(rows, b, Head(cols))
         IN  x < y \/ (x = y /\ Before(rows, a, b, Tail(cols)))

\* The keys of the rows a statement selects, in every order the store may
\* hand them back: any order that agrees with ORDER BY, cut to the window of
\* OFFSET and LIMIT.
Selected(s, stmt) ==
    LET rows == View(s)
        hits == {k \in DOMAIN rows :
                    \A i \in 1..Len(stmt.clauses) :
                        IF stmt.clauses[i].col = "bool" THEN stmt.clauses[i].val = "True"
                        ELSE rows[k][stmt.clauses[i].col] = stmt.clauses[i].val}
        from == IF stmt.offset = <<>> THEN 0 ELSE stmt.offset[1]
        upto(n) == IF stmt.limit = <<>> \/ from + stmt.limit[1] > n THEN n
                   ELSE from + stmt.limit[1]
    IN  {SubSeq(q, from + 1, upto(Len(q))) :
            q \in {o \in Orderings(hits) :
                      \A i, j \in 1..Len(o) :
                          i < j => ~Before(rows, o[j], o[i], stmt.order_by)}}

\* Session.exec(statement): the session autoflushes and runs the statement;
\* the result it hands back has read no row yet, so no instance is loaded.
SessionExecute(s) == Call(SessionFlush(s), "exec")

\* The result of a statement read by the caller, with .all(), .one() or
\* .first(), for each order q the store may hand the rows back in.  The
\* instances handed to the caller are loaded; those built for the other rows
\* of the result stay in the session only while something still refers to
\* them, so any of them may.
ResultRead(s, stmt, how) ==
    UNION {LET rows == [i \in 1..Len(q) |-> Instance(View(s), q[i])]
               handed == IF how = "all" THEN {q[i] : i \in 1..Len(q)}
                         ELSE IF how = "one" THEN (IF Len(q) = 1 THEN {q[1]} ELSE {})
                         ELSE IF Len(q) > 0 THEN {q[1]} ELSE {}
               r == IF how = "all" THEN [exc |-> "", kind |-> "list", items |-> rows, msg |-> <<>>]
                    ELSE IF how = "one" /\ Len(q) = 0
                    THEN [exc |-> "sqlalchemy.exc.NoResultFound", kind |-> "raise", items |-> <<>>,
                          msg |-> <<"No row was found when one was required">>]
                    ELSE IF how = "one" /\ Len(q) > 1
                    THEN [exc |-> "sqlalchemy.exc.MultipleResultsFound", kind |-> "raise",
                          items |-> <<>>,
                          msg |-> <<"Multiple rows were found when exactly one was required">>]
                    ELSE IF Len(q) = 0
                    THEN [exc |-> "", kind |-> "none", items |-> <<>>, msg |-> <<>>]
                    ELSE [exc |-> "", kind |-> "instance", items |-> <<rows[1]>>, msg |-> <<>>]
           IN  {[s |-> [s EXCEPT !.loaded = @ \cup handed \cup kept], r |-> r] :
                    kept \in SUBSET {q[i] : i \in 1..Len(q)}} :
           q \in Selected(s, stmt)}

(***************************************************************************)
(* What a call returns or raises.                                          *)
(***************************************************************************)
Returns(kind, items) == [exc |-> "", kind |-> kind, items |-> items, msg |-> <<>>]
Raises(exc, msg) == [exc |-> exc, kind |-> "raise", items |-> <<>>, msg |-> msg]

(***************************************************************************)
(* CrudService.                                                            *)
(***************************************************************************)
\* A primary key as the caller hands it over, by its Python type: a str or
\* an int (atomic), a tuple or a list of atomic values, a dict of pairs of a
\* name and an atomic value in the dict's order, or a value of another type.
\* The key of the table model is an int.
IntKey(k) == [type |-> "int", val |-> k]

\* str() of an atomic value.
Str(a) == IF a.type = "int" THEN ToString(a.val) ELSE a.val

\* sep.join(parts): the pieces of the joined text, in order.
RECURSIVE Join(_, _)
Join(parts, sep) ==
    IF parts = <<>> THEN <<>>
    ELSE IF Len(parts) = 1 THEN Head(parts)
    ELSE Head(parts) \o <<sep>> \o Join(Tail(parts), sep)

\* _format_primary_key: the text of the key, as the pieces it is made of, or
\* ValueError for a key of no recognised type.
format_primary_key(pk) ==
    IF pk.type \in {"str", "int"}
    THEN Returns("str", <<Str(pk)>>)
    ELSE IF pk.type \in {"tuple", "list"}
    THEN Returns("str", Join([i \in 1..Len(pk.val) |-> <<Str(pk.val[i])>>], "|"))
    ELSE IF pk.type = "dict"
    THEN Returns("str", Join([i \in 1..Len(pk.val) |->
                                <<pk.val[i][1], ":", Str(pk.val[i][2])>>], "|"))
    ELSE Raises("ValueError", <<"Unrecognized primary key type.">>)

\* raise NotFound(self._format_primary_key(pk)): the formatting may raise
\* itself.
not_found(pk) ==
    LET text == format_primary_key(IntKey(pk))
    IN  IF text.exc # "" THEN text ELSE Raises("NotFound", text.items)

\* _prepare_for_create: self._model.model_validate(data).
prepare_for_create(data) == [id |-> NoId, name |-> data.name]

\* Variant: model_dump() without exclude_unset, the unset fields included.
prepare_for_update_all(data) == [f \in Fields |-> data.values[f]]

\* _prepare_for_update: data.model_dump(exclude_unset=True).
prepare_for_update(data) == [f \in data.fields_set |-> data.values[f]]

RECURSIVE SetAttrs(_, _, _)
SetAttrs(s, k, changes) ==
    IF DOMAIN changes = {} THEN s
    ELSE LET f == CHOOSE g \in DOMAIN changes : TRUE
         IN  SetAttrs(SetAttr(s, k, f, changes[f]), k,
                      [g \in DOMAIN changes \ {f} |-> changes[g]])

\* _apply_changes_to_item: setattr for every pair of the prepared changes.
apply_changes_to_item(s, k, data) == SetAttrs(s, k, prepare_for_update(data))

\* Variant: CommitFailed raised without the rollback.
safe_commit_no_rollback(s, ok, error_msg) ==
    LET c == SessionCommit(s, ok)
    IN  IF c.raised
        THEN [s |-> c.s, raised |-> TRUE, r |-> Raises("CommitFailed", <<error_msg>>)]
        ELSE [s |-> c.s, raised |-> FALSE, r |-> Returns("none", <<>>)]

\* _safe_commit: commit, and on failure rollback before raising CommitFailed.
safe_commit(s, ok, error_msg) ==
    LET c == SessionCommit(s, ok)
    IN  IF c.raised
        THEN [s |-> SessionRollback(c.s), raised |-> TRUE,
              r |-> Raises("CommitFailed", <<error_msg>>)]
        ELSE [s |-> c.s, raised |-> FALSE, r |-> Returns("none", <<>>)]

\* exec: return self._session.exec(statement).  What is returned is the
\* session's result of the statement, no row of it read.
exec(s, stmt) == [s |-> SessionExecute(s), r |-> Returns("result", <<stmt>>)]

\* get_all: self._session.exec(select(self._model)).all().
get_all(s) == ResultRead(SessionExecute(s), select, "all")

\* all: the select of the table, with the where clause, the ordering, the
\* limit and the offset that are not None (here <<>>), executed and read
\* with .all().
all(s, clause, order_by, limit, offset) ==
    LET stmt == select
        stmt1 == IF clause # <<>> THEN [stmt EXCEPT !.clauses = Append(@, clause[1])] ELSE stmt
        stmt2 == IF order_by # <<>> THEN [stmt1 EXCEPT !.order_by = @ \o order_by[1]] ELSE stmt1
        stmt3 == IF limit # <<>> THEN [stmt2 EXCEPT !.limit = limit] ELSE stmt2
        stmt4 == IF offset # <<>> THEN [stmt3 EXCEPT !.offset = offset] ELSE stmt3
    IN  ResultRead(exec(s, stmt4).s, stmt4, "all")

get_by_pk(s, pk) == SessionGet(s, pk)

\* refresh: self._session.refresh(instance); nothing is returned.  The
\* session refuses an instance that is not persistent, before it does anything.
refresh(s, k) ==
    IF Persistent(s, k)
    THEN [s |-> SessionRefresh(s, k), r |-> Returns("none", <<>>)]
    ELSE [s |-> Call(s, "refresh"),
          r |-> Raises("InvalidRequestError", <<"Instance is not persistent within this Session">>)]

\* Variant: the new instance is never added to the session, so the refresh
\* finds no row of it.
create_unstaged(s, data, ok) ==
    LET db_item == prepare_for_create(data)
        c == safe_commit(s, ok, "Commit failed.")
    IN  IF c.raised THEN [s |-> c.s, r |-> c.r]
        ELSE [s |-> Call(c.s, "refresh"),
              r |-> Raises("InvalidRequestError", <<"Could not refresh instance">>)]

create(s, data, ok) ==
    LET db_item == prepare_for_create(data)
        s1 == SessionAdd(s, db_item)
        key == MaxId(Flushed(s1))
        c == safe_commit(s1, ok, "Commit failed.")
        s2 == SessionRefresh(c.s, key)
    IN  IF c.raised THEN [s |-> c.s, r |-> c.r]
        ELSE [s |-> s2, r |-> Returns("instance", <<Instance(View(s2), key)>>)]

\* create_multiple: `self.db` is no attribute of the service (__slots__ holds
\* _model and _session only), so the call raises before it stages anything.
create_multiple(s, datalist) ==
    LET db_items == [i \in 1..Len(datalist) |-> prepare_for_create(datalist[i])]
    IN  [s |-> s, r |-> Raises("AttributeError", <<"db">>)]

update_item(s, k, data, ok) ==
    LET s1 == apply_changes_to_item(s, k, data)
        s2 == SessionAdd(s1, Instance(View(s1), k))
        c == safe_commit(s2, ok, "Update failed.")
        s3 == SessionRefresh(c.s, k)
    IN  IF c.raised THEN [s |-> c.s, r |-> c.r]
        ELSE [s |-> s3, r |-> Returns("instance", <<Instance(View(s3), k)>>)]

update(s, pk, data, ok) ==
    LET g == get_by_pk(s, pk)
    IN  IF g.items = <<>>
        THEN [s |-> g.s, r |-> not_found(pk)]
        ELSE update_item(g.s, pk, data, ok)

\* Variant: no check of what the lookup found.
delete_by_pk_unchecked(s, pk, ok) ==
    LET g == get_by_pk(s, pk)
        s1 == SessionDelete(g.s, pk)
        c == safe_commit(s1, ok, "Failed to delete item.")
    IN  [s |-> c.s, r |-> c.r]

\* Variant: the instance is not marked for deletion before the commit.
delete_by_pk_unstaged(s, pk, ok) ==
    LET g == get_by_pk(s, pk)
        c == safe_commit(g.s, ok, "Failed to delete item.")
    IN  IF g.items = <<>>
        THEN [s |-> g.s, r |-> not_found(pk)]
        ELSE [s |-> c.s, r |-> c.r]

delete_by_pk(s, pk, ok) ==
    LET g == get_by_pk(s, pk)
        s1 == SessionDelete(g.s, pk)
        c == safe_commit(s1, ok, "Failed to delete item.")
    IN  IF g.items = <<>>
        THEN [s |-> g.s, r |-> not_found(pk)]
        ELSE [s |-> c.s, r |-> c.r]

\* An instance of the session as it reads in the caller's hands: its key
\* attribute reads NoId as long as no flush has INSERTed it.
Reads(s, k) == [Instance(View(s), k) EXCEPT !.id = IF Persistent(s, k) THEN k ELSE NoId]

RECURSIVE ApplyAll(_, _)
ApplyAll(s, items) ==
    IF items = <<>> THEN s
    ELSE ApplyAll(apply_changes_to_item(s, Head(items)[1], Head(items)[2]), Tail(items))

\* Variant: an empty batch is not committed.
add_to_session_skip_empty(s, items, commit, operation, ok) ==
    LET n == Len(items)
        s1 == IF operation = "create" THEN s ELSE ApplyAll(s, items)
        db_items == IF operation = "create"
                    THEN [i \in 1..n |-> prepare_for_create(items[i])]
                    ELSE [i \in 1..n |-> Instance(View(s1), items[i][1])]
        s2 == SessionAddAll(s1, db_items)
        handed == IF operation = "create" THEN db_items
                  ELSE [i \in 1..n |-> Reads(s1, items[i][1])]
        first == MaxId(Flushed(s2)) - n
        c == safe_commit(s2, ok, "Commit failed.")
    IN  IF operation \notin {"create", "update"}
        THEN [s |-> s, r |-> Raises("ServiceException", <<"Unsupported operation: ", operation>>)]
        ELSE IF ~commit \/ n = 0 THEN [s |-> s2, r |-> Returns("list", handed)]
        ELSE IF c.raised THEN [s |-> c.s, r |-> c.r]
        ELSE [s |-> c.s,
              r |-> Returns("list",
                      [i \in 1..n |-> IF operation = "create"
                                      THEN Instance(View(c.s), first + i)
                                      ELSE Instance(View(c.s), items[i][1])])]

\* Variant: any operation that is not "update" takes the create flow.
add_to_session_lenient(s, items, commit, operation, ok) ==
    LET n == Len(items)
        s1 == IF operation # "update" THEN s ELSE ApplyAll(s, items)
        db_items == IF operation # "update"
                    THEN [i \in 1..n |-> prepare_for_create(items[i])]
                    ELSE [i \in 1..n |-> Instance(View(s1), items[i][1])]
        s2 == SessionAddAll(s1, db_items)
        handed == IF operation # "update" THEN db_items
                  ELSE [i \in 1..n |-> Reads(s1, items[i][1])]
        first == MaxId(Flushed(s2)) - n
        c == safe_commit(s2, ok, "Commit failed.")
    IN  IF ~commit THEN [s |-> s2, r |-> Returns("list", handed)]
        ELSE IF c.raised THEN [s |-> c.s, r |-> c.r]
        ELSE [s |-> c.s,
              r |-> Returns("list",
                      [i \in 1..n |-> IF operation # "update"
                                      THEN Instance(View(c.s), first + i)
                                      ELSE Instance(View(c.s), items[i][1])])]

\* Variant: the batch is committed whether or not commit was asked for.
add_to_session_eager(s, items, commit, operation, ok) ==
    LET n == Len(items)
        s1 == IF operation = "create" THEN s ELSE ApplyAll(s, items)
        db_items == IF operation = "create"
                    THEN [i \in 1..n |-> prepare_for_create(items[i])]
                    ELSE [i \in 1..n |-> Instance(View(s1), items[i][1])]
        s2 == SessionAddAll(s1, db_items)
        first == MaxId(Flushed(s2)) - n
        c == safe_commit(s2, ok, "Commit failed.")
    IN  IF operation \notin {"create", "update"}
        THEN [s |-> s, r |-> Raises("ServiceException", <<"Unsupported operation: ", operation>>)]
        ELSE IF c.raised THEN [s |-> c.s, r |-> c.r]
        ELSE [s |-> c.s,
              r |-> Returns("list",
                      [i \in 1..n |-> IF operation = "create"
                                      THEN Instance(View(c.s), first + i)
                                      ELSE Instance(View(c.s), items[i][1])])]

\* add_to_session.  For "create" the items are creation inputs; for "update"
\* they are pairs of an instance of the session and an update input.  add_all
\* leaves an instance the session already holds as it is.  The returned list
\* holds the staged instances as they read when the call returns: without a
\* commit an instance handed in reads the key attribute it had.
add_to_session(s, items, commit, operation, ok) ==
    LET n == Len(items)
        s1 == IF operation = "create" THEN s ELSE ApplyAll(s, items)
        db_items == IF operation = "create"
                    THEN [i \in 1..n |-> prepare_for_create(items[i])]
                    ELSE [i \in 1..n |-> Instance(View(s1), items[i][1])]
        s2 == SessionAddAll(s1, db_items)
        handed == IF operation = "create" THEN db_items
                  ELSE [i \in 1..n |-> Reads(s1, items[i][1])]
        first == MaxId(Flushed(s2)) - n
        c == safe_commit(s2, ok, "Commit failed.")
    IN  IF operation \notin {"create", "update"}
        THEN [s |-> s, r |-> Raises("ServiceException", <<"Unsupported operation: ", operation>>)]
        ELSE IF ~commit THEN [s |-> s2, r |-> Returns("list", handed)]
        ELSE IF c.raised THEN [s |-> c.s, r |-> c.r]
        ELSE [s |-> c.s,
              r |-> Returns("list",
                      [i \in 1..n |-> IF operation = "create"
                                      THEN Instance(View(c.s), first + i)
                                      ELSE Instance(View(c.s), items[i][1])])]

\* The set of the keys a list of keys holds.
Range(q) == {q[i] : i \in 1..Len(q)}

RECURSIVE Found(_, _)
Found(s, pks) ==
    IF pks = <<>> THEN <<>>
    ELSE get_by_pk(s, Head(pks)).items \o Found(s, Tail(pks))

\* Variant: one lookup for each requested key, a repeated key found again.
get_by_pks_each(s, pks) ==
    {[s |-> SessionQueried(s, DOMAIN View(s) \cap Range(pks)),
      r |-> Returns("list", Found(s, pks))]}

\* get_by_pks: select(model).where(model.id.in_(pks)), then .all().  The
\* store decides the order, so this is the set of the lists it may return.
get_by_pks(s, pks) ==
    {[s |-> SessionQueried(s, DOMAIN View(s) \cap Range(pks)), r |-> Returns("list", rows)] :
        rows \in SessionExec(s, DOMAIN View(s) \cap Range(pks))}

\* A where clause: a comparison of one column with a value, or a bool.
Wheres ==
    {[col |-> "name", val |-> v] : v \in Names}
    \cup {[col |-> "bool", val |-> b] : b \in {"True", "False"}}

Matches(row, clause) ==
    IF clause.col = "bool" THEN clause.val = "True" ELSE row[clause.col] = clause.val

Matching(s, clause) == {k \in DOMAIN View(s) : Matches(View(s)[k], clause)}

\* one: ScalarResult.one() wants exactly one row.
one(s, clause) ==
    LET m == Matching(s, clause)
    IN  [s |-> SessionQueried(s, m),
         r |-> IF Cardinality(m) > 1
               THEN Raises("MultipleResultsFound", <<"Multiple items matched the where clause.">>)
               ELSE IF m = {}
               THEN Raises("NotFound", <<"No items matched the where clause">>)
               ELSE Returns("instance", <<Instance(View(s), CHOOSE k \in m : TRUE)>>)]

\* Variant: ScalarResult.first(), which takes the first of many rows.
one_or_none_first(s, clause) ==
    LET m == Matching(s, clause)
    IN  [s |-> SessionQueried(s, m),
         r |-> IF m = {} THEN Returns("none", <<>>)
               ELSE Returns("instance", <<Instance(View(s), CHOOSE k \in m : TRUE)>>)]

\* one_or_none: ScalarResult.one_or_none() wants at most one row.
one_or_none(s, clause) ==
    LET m == Matching(s, clause)
    IN  [s |-> SessionQueried(s, m),
         r |-> IF Cardinality(m) > 1
               THEN Raises("MultipleResultsFound", <<"Multiple items matched the where clause.">>)
               ELSE IF m = {}
               THEN Returns("none", <<>>)
               ELSE Returns("instance", <<Instance(View(s), CHOOSE k \in m : TRUE)>>)]

(***************************************************************************)
(* The caller: one service call at a time, each taken to its end; the      *)
(* caller then picks up the outcome before it makes the next call.         *)
(***************************************************************************)
SeqsUpTo(S, n) == UNION {[1..m -> S] : m \in 0..n}

NoCall == [op |-> "none"]
NoResult == Returns("none", <<>>)

Idle == last = NoCall

\* The calls start with an empty log of Session methods.
Begin == [session EXCEPT !.calls = <<>>]

\* The bounds: keys stay within 1..MaxKey, staged work within what the
\* caller holds at most.
Staged(s) == Len(s.new) + Cardinality(DOMAIN s.dirty)
Room(s) == MaxKey - MaxId(View(s))
Bounded(s, lim) == MaxId(View(s)) <= MaxKey /\ Staged(s) <= lim.staged

\* <<>> or one value: an optional argument (<<>> stands for None), or a list
\* of at most one item.
Optional(S) == {<<>>} \cup {<<x>> : x \in S}

\* Two callers.  One hands whole lists to the bulk operations and leaves at
\* most MaxStaged staged; the other hands them one item at a time, staging
\* item after item, up to MaxHeld.
Lists == [staged |-> MaxStaged, single |-> FALSE]
Stager == [staged |-> MaxHeld, single |-> TRUE]

\* The lists of up to n items of S a caller hands over.
Handed(S, n, lim) == IF lim.single THEN Optional(S) ELSE SeqsUpTo(S, n)

\* The store's answer matters only to a call that gets to commit.
Asked(s, ok) == ok \/ \E i \in 1..Len(s.calls) : s.calls[i] = "commit"

Done(o, call, lim) ==
    /\ Bounded(o.s, lim)
    /\ session' = o.s
    /\ result' = o.r
    /\ last' = call
    /\ held' = Staged(session)
    /\ UNCHANGED failed

Init ==
    /\ session = [db |-> NoRows, new |-> <<>>, dirty |-> NoRows, deleted |-> {},
                  broken |-> FALSE, tx |-> NoRows, loaded |-> {}, calls |-> <<>>]
    /\ last = NoCall
    /\ result = NoResult
    /\ failed = FALSE
    /\ held = 0

All(lim) ==
    /\ Idle
    /\ \E clause \in Optional({c \in Wheres : c.col \in Fields}), order_by \in Optional({<<"id">>}),
          limit \in Optional({1}), offset \in Optional({1}) :
        \E o \in all(Begin, clause, order_by, limit, offset) :
            Done(o, [op |-> "all", clause |-> clause, order_by |-> order_by,
                     limit |-> limit, offset |-> offset], lim)

Create(lim) ==
    /\ Idle
    /\ Room(session) >= 1
    /\ \E data \in CreateInputs, ok \in BOOLEAN :
        LET o == create(Begin, data, ok)
        IN  Done(o, [op |-> "create", data |-> data, ok |-> ok], lim)

CreateMultiple(lim) ==
    /\ Idle
    /\ \E datalist \in Handed(CreateInputs, MaxItems, lim) :
        LET o == create_multiple(Begin, datalist)
        IN  Done(o, [op |-> "create_multiple", datalist |-> datalist], lim)

DeleteByPk(lim) ==
    /\ Idle
    /\ \E pk \in 1..MaxKey + 1, ok \in BOOLEAN :
        LET o == delete_by_pk(Begin, pk, ok)
        IN  Asked(o.s, ok) /\ Done(o, [op |-> "delete_by_pk", pk |-> pk, ok |-> ok], lim)

\* exec is handed a statement made with select().
Exec(lim) ==
    /\ Idle
    /\ \E clauses \in SeqsUpTo(Wheres, 1) :
        Done(exec(Begin, [select EXCEPT !.clauses = clauses]),
             [op |-> "exec", clauses |-> clauses], lim)

GetAll(lim) ==
    /\ Idle
    /\ \E o \in get_all(Begin) : Done(o, [op |-> "get_all"], lim)

GetByPk(lim) ==
    /\ Idle
    /\ \E pk \in 1..MaxKey + 1 :
        LET g == get_by_pk(Begin, pk)
            r == IF g.items = <<>> THEN Returns("none", <<>>) ELSE Returns("instance", g.items)
        IN  Done([s |-> g.s, r |-> r], [op |-> "get_by_pk", pk |-> pk], lim)

GetByPks(lim) ==
    /\ Idle
    /\ \E pks \in Handed(1..MaxKey + 1, MaxItems, lim) :
        \E o \in get_by_pks(Begin, pks) :
            Done(o, [op |-> "get_by_pks", pks |-> pks], lim)

One(lim) ==
    /\ Idle
    /\ \E clause \in Wheres :
        Done(one(Begin, clause), [op |-> "one", clause |-> clause], lim)

OneOrNone(lim) ==
    /\ Idle
    /\ \E clause \in Wheres :
        Done(one_or_none(Begin, clause), [op |-> "one_or_none", clause |-> clause], lim)

Update(lim) ==
    /\ Idle
    /\ \E pk \in 1..MaxKey + 1, data \in UpdateInputs, ok \in BOOLEAN :
        LET o == update(Begin, pk, data, ok)
        IN  Asked(o.s, ok)
            /\ Done(o, [op |-> "update", pk |-> pk, data |-> data, ok |-> ok], lim)

\* update_item is handed an instance the caller loaded from this session.
UpdateItem(lim) ==
    /\ Idle
    /\ \E k \in DOMAIN View(session), data \in UpdateInputs, ok \in BOOLEAN :
        LET o == update_item(Begin, k, data, ok)
        IN  Done(o, [op |-> "update_item", pk |-> k, data |-> data, ok |-> ok], lim)

AddToSession(lim) ==
    /\ Idle
    /\ \E operation \in {"create", "update", "delete"}, commit \in BOOLEAN, ok \in BOOLEAN :
        \E items \in IF operation = "update"
                     THEN Handed((DOMAIN View(session)) \X BatchUpdates, MaxPairs, lim)
                     ELSE IF operation = "create"
                     THEN SeqsUpTo(CreateInputs, MaxItems)
                     ELSE Handed(CreateInputs, MaxItems, lim) :
            LET o == add_to_session(Begin, items, commit, operation, ok)
            IN  /\ operation = "create" => Len(items) <= Room(session)
                /\ Asked(o.s, ok)
                /\ Done(o, [op |-> "add_to_session", items |-> items, commit |-> commit,
                            operation |-> operation, ok |-> ok], lim)

\* refresh is handed an instance of this session.
Refresh(lim) ==
    /\ Idle
    /\ \E k \in DOMAIN View(session) :
        Done(refresh(Begin, k), [op |-> "refresh", pk |-> k], lim)

\* The caller reads the result exec has just handed it, before its next
\* call on the service; it may as well leave it unread (Return).
Read(lim) ==
    /\ last.op = "exec"
    /\ result.kind = "result"
    /\ \E how \in {"all", "one", "first"} :
        \E o \in ResultRead(session, result.items[1], how) :
            Done(o, [op |-> "read", how |-> how, clauses |-> last.clauses], lim)

\* The caller has the outcome of its call and turns to the next one.
Return ==
    /\ ~Idle
    /\ last' = NoCall
    /\ result' = NoResult
    /\ session' = Begin
    /\ failed' = (result.exc = "CommitFailed")
    /\ held' = 0

\* One step of a caller: a call of one of the service's public methods that
\* touch the session (select only builds a statement), the reading of a
\* result exec returned, or the end of a call.
Next(lim) ==
    \/ AddToSession(lim)
    \/ All(lim)
    \/ Create(lim)
    \/ CreateMultiple(lim)
    \/ DeleteByPk(lim)
    \/ Exec(lim)
    \/ GetAll(lim)
    \/ GetByPk(lim)
    \/ GetByPks(lim)
    \/ One(lim)
    \/ OneOrNone(lim)
    \/ Read(lim)
    \/ Refresh(lim)
    \/ Update(lim)
    \/ UpdateItem(lim)
    \/ Return

Spec == Init /\ [][Next(Lists)]_vars

SpecStaged == Init /\ [][Next(Stager)]_vars

(***************************************************************************)
(* The claims.                                                             *)
(***************************************************************************)
\* The committed rows and the work the session has staged, whatever of it a
\* flush has already sent into the open transaction.
Holds(s) ==
    [db |-> s.db, new |-> s.new, dirty |-> s.dirty, deleted |-> s.deleted,
     broken |-> s.broken]

Count(q, x) == Cardinality({i \in 1..Len(q) : q[i] = x})

\* The write calls that got as far as asking the store to commit.
Committing(l, s) ==
    /\ l.op \in {"create", "update", "update_item", "delete_by_pk", "add_to_session"}
    /\ Count(s.calls, "commit") > 0

\* C1: when the commit succeeds, create returns an instance with the fields
\* of the input and a populated key, and get_by_pk with that key, asked right
\* after, gives an instance equal to the returned one.
C1_CreateRoundTrip ==
    (last.op = "create" /\ last.ok) =>
        /\ result.exc = ""
        /\ result.kind = "instance"
        /\ Len(result.items) = 1
        /\ result.items[1].id # NoId
        /\ \A f \in Fields : result.items[1][f] = last.data[f]
        /\ get_by_pk(session, result.items[1].id).items = result.items

C1_Witness ==
    /\ last.op = "create" /\ last.ok
    /\ result.kind = "instance"
    /\ result.items[1].name = "Bob"
    /\ result.items[1].id = 2

\* C2 as claimed: a successful update of a key that has a stored row sets
\* exactly the fields the update input has explicitly set, to the values
\* given, in the stored row; every other field of that row and every other
\* stored row keep the value that was stored before the update.
C2_StoredBefore ==
    [][(last'.op = "update" /\ last'.ok /\ last'.pk \in DOMAIN session.db) =>
        LET k == last'.pk
            d == last'.data
            before == session.db
            after == session'.db
        IN  /\ result'.exc = ""
            /\ k \in DOMAIN after
            /\ \A f \in Fields :
                after[k][f] = IF f \in d.fields_set THEN d.values[f] ELSE before[k][f]
            /\ \A j \in DOMAIN before \ {k} : j \in DOMAIN after /\ after[j] = before[j]]_vars

\* C2, amended: a successful update of a key that has a row, stored or staged
\* for insertion, sets exactly the fields the update input has explicitly
\* set, to the values given, in the stored row; every other field of that row
\* and every other row are stored with the value the session held for them
\* before the update: the stored value, or what an earlier
\* add_to_session(commit=False) left staged, which the update's commit
\* persists as well, a row staged for insertion included.  No other row
\* appears or goes, and the updated row is what the call returns.
C2_PartialUpdate ==
    [][(last'.op = "update" /\ last'.ok /\ last'.pk \in DOMAIN View(session)) =>
        LET k == last'.pk
            d == last'.data
            before == View(session)
            after == session'.db
        IN  /\ result'.exc = ""
            /\ DOMAIN after = DOMAIN before
            /\ \A f \in Fields :
                after[k][f] = IF f \in d.fields_set THEN d.values[f] ELSE before[k][f]
            /\ \A j \in DOMAIN before \ {k} : after[j] = before[j]
            /\ result'.items = <<Instance(after, k)>>]_vars

\* An update that sets no field found a change staged on another row and
\* its commit stored both rows.
C2_Witness ==
    /\ last.op = "update" /\ last.ok /\ result.exc = ""
    /\ held = 1
    /\ last.data.fields_set = {}
    /\ last.pk = 2
    /\ session.db[2].name = "Bob"
    /\ session.db[1].name = "Ann"

\* C3: when the commit fails inside create, update, update_item, delete_by_pk
\* or add_to_session(commit=True), the service calls rollback once, right
\* after the commit and before it raises CommitFailed, calls no refresh, and
\* the committed rows are those from before the call; a write call made after
\* such a failure whose commit the store accepts completes normally.
C3_CommitFailure ==
    [][/\ (Committing(last', session') /\ ~last'.ok) =>
            /\ result'.exc = "CommitFailed"
            /\ Count(session'.calls, "rollback") = 1
            /\ Count(session'.calls, "commit") = 1
            /\ Count(session'.calls, "refresh") = 0
            /\ LET n == Len(session'.calls)
               IN  session'.calls[n - 1] = "commit" /\ session'.calls[n] = "rollback"
            /\ session'.db = session.db
            /\ ~session'.broken
       /\ (Committing(last', session') /\ last'.ok /\ failed) =>
            /\ result'.exc = ""
            /\ Count(session'.calls, "rollback") = 0]_vars

C3_Witness ==
    /\ failed
    /\ last.op = "update" /\ last.ok
    /\ result.exc = ""
    /\ last.data.fields_set = {"name"}
    /\ session.db[last.pk].name = last.data.values["name"]

\* C4: delete_by_pk and update with a key that has no row raise NotFound and
\* touch nothing: the committed rows and the staged work are as before the
\* call, whose one Session call is the lookup (which may flush staged work
\* into the open transaction); no add, delete, commit or rollback.
C4_NotFound ==
    [][(last'.op \in {"delete_by_pk", "update"} /\ last'.pk \notin DOMAIN View(session)) =>
        /\ result'.exc = "NotFound"
        /\ session'.calls = <<"get">>
        /\ Holds(session') = Holds(session)]_vars

C4_Witness ==
    /\ last.op = "delete_by_pk"
    /\ result.exc = "NotFound"
    /\ last.pk = 1
    /\ DOMAIN session.db = {2}
    /\ session.calls = <<"get">>

\* C5: create_multiple converts every input, stages all the models, commits
\* once, refreshes nothing and returns the models in the order of the inputs,
\* all of them rows of the store afterwards.
C5_CreateMultiple ==
    (last.op = "create_multiple") =>
        /\ result.exc = ""
        /\ result.kind = "list"
        /\ Len(result.items) = Len(last.datalist)
        /\ Count(session.calls, "commit") = 1
        /\ Count(session.calls, "refresh") = 0
        /\ \A i \in 1..Len(last.datalist) :
            /\ \A f \in Fields : result.items[i][f] = last.datalist[i][f]
            /\ \E k \in DOMAIN session.db :
                \A f \in Fields : session.db[k][f] = last.datalist[i][f]

\* C6: one and one_or_none answer by the number of rows that match: none
\* gives NotFound from one and the none-value from one_or_none, exactly one
\* gives that row from both, two or more give MultipleResultsFound from both;
\* and neither changes the committed rows or the staged work (the query may
\* flush staged work into the open transaction).
C6_SingleRow ==
    [][(last'.op \in {"one", "one_or_none"}) =>
        LET rows == View(session)
            m == {k \in DOMAIN rows :
                    \/ last'.clause.col = "bool" /\ last'.clause.val = "True"
                    \/ /\ last'.clause.col \in Fields
                       /\ rows[k][last'.clause.col] = last'.clause.val}
        IN  /\ Cardinality(m) = 0 =>
                IF last'.op = "one" THEN result'.exc = "NotFound"
                ELSE result' = Returns("none", <<>>)
            /\ Cardinality(m) = 1 =>
                /\ result'.exc = ""
                /\ \E k \in m : result'.items = <<Instance(rows, k)>>
            /\ Cardinality(m) >= 2 => result'.exc = "MultipleResultsFound"
            /\ session'.calls = <<"exec">>
            /\ Holds(session') = Holds(session)]_vars

C6_Witness ==
    /\ last.op = "one_or_none"
    /\ last.clause = [col |-> "name", val |-> "Bob"]
    /\ result.exc = "MultipleResultsFound"

\* C7: add_to_session with a valid operation commits once when commit is
\* asked for and never otherwise, whatever the items, the empty list
\* included, and calls no refresh.
C7_CommitOnce ==
    (last.op = "add_to_session" /\ last.operation \in {"create", "update"}) =>
        /\ Count(session.calls, "commit") = (IF last.commit THEN 1 ELSE 0)
        /\ Count(session.calls, "refresh") = 0

C7_Witness ==
    /\ last.op = "add_to_session"
    /\ last.operation = "update"
    /\ last.items = <<>>
    /\ last.commit
    /\ session.calls = <<"add_all", "commit">>

\* C8: right after a delete_by_pk(k) that succeeded, get_by_pk(k) gives the
\* none-value; a key without a row gets one only from a call of the create
\* flow; and get_by_pk on a key without a row returns the none-value and
\* raises nothing.
C8_DeletedStaysGone ==
    [][/\ (last'.op = "delete_by_pk" /\ result'.exc = "") =>
            /\ last'.pk \in DOMAIN View(session)
            /\ get_by_pk(session', last'.pk).items = <<>>
       /\ \A k \in 1..MaxKey + 1 :
            (k \notin DOMAIN View(session) /\ k \in DOMAIN View(session')) =>
                \/ last'.op = "create"
                \/ last'.op = "add_to_session" /\ last'.operation = "create"
       /\ (last'.op = "get_by_pk" /\ last'.pk \notin DOMAIN View(session)) =>
            result' = Returns("none", <<>>)]_vars

C8_Witness ==
    /\ last.op = "delete_by_pk" /\ result.exc = ""
    /\ last.pk = 1
    /\ DOMAIN session.db = {2}
    /\ get_by_pk(session, 1).items = <<>>

\* C9: get_by_pks returns the rows whose key is among the requested ones and
\* has a row: each such row once, nothing else, and no error for the keys
\* that have none.
C9_ByKeys ==
    (last.op = "get_by_pks") =>
        LET rows == View(session)
            want == {k \in DOMAIN rows : \E i \in 1..Len(last.pks) : last.pks[i] = k}
        IN  /\ result.exc = ""
            /\ Len(result.items) = Cardinality(want)
            /\ \A k \in want : Count(result.items, Instance(rows, k)) = 1

C9_Witness ==
    /\ last.op = "get_by_pks"
    /\ last.pks = <<2, 1>>
    /\ DOMAIN session.db = {2}
    /\ Len(result.items) = 1

\* C10: add_to_session with an operation other than "create" and "update"
\* raises ServiceException with nothing done: the session is as it was, no
\* Session method called, whether or not a commit was asked for.
C10_BadOperation ==
    [][(last'.op = "add_to_session" /\ last'.operation \notin {"create", "update"}) =>
        /\ result'.exc = "ServiceException"
        /\ session' = [session EXCEPT !.calls = <<>>]]_vars

C10_Witness ==
    /\ last.op = "add_to_session"
    /\ last.operation = "delete"
    /\ last.commit
    /\ Len(last.items) = 2
    /\ result.exc = "ServiceException"
    /\ session.calls = <<>>

\* The keys of the rows with uncommitted staged work: pending inserts (by
\* the key the store will give them) and changed loaded instances.
StagedKeys(s) ==
    DOMAIN s.dirty \cup (MaxId(s.db) + 1 .. MaxId(s.db) + Len(s.new))

\* The fields the call l itself assigns on the row with key k.
AssignedBy(l, k) ==
    IF l.op \in {"update", "update_item"}
    THEN (IF l.pk = k THEN l.data.fields_set ELSE {})
    ELSE IF l.op = "add_to_session" /\ l.operation = "update"
    THEN UNION {l.items[i][2].fields_set :
                    i \in {j \in 1..Len(l.items) : l.items[j][1] = k}}
    ELSE {}

\* The value the call l assigns to the field f of the row with key k, which
\* is among those it assigns: of the pairs of a batch, the last one counts.
AssignedValue(l, k, f) ==
    IF l.op \in {"update", "update_item"} THEN l.data.values[f]
    ELSE LET hits == {i \in 1..Len(l.items) :
                        l.items[i][1] = k /\ f \in l.items[i][2].fields_set}
             i == CHOOSE j \in hits : \A h \in hits : h <= j
         IN  l.items[i][2].values[f]

\* What add_to_session(commit=False) stages is not among the committed rows
\* when the call returns: the store is as before, the session holds the items.
StagedNotStored ==
    (/\ last'.op = "add_to_session"
     /\ last'.operation \in {"create", "update"}
     /\ ~last'.commit) =>
        /\ result'.exc = ""
        /\ Count(session'.calls, "commit") = 0
        /\ session'.db = session.db
        /\ last'.operation = "create" =>
            /\ session'.dirty = session.dirty
            /\ session'.new =
                session.new \o [i \in 1..Len(last'.items) |->
                                   [f \in Fields |-> last'.items[i][f]]]
        /\ last'.operation = "update" =>
            \A i \in 1..Len(last'.items) :
                LET k == last'.items[i][1]
                    d == last'.items[i][2]
                IN  /\ k \in DOMAIN View(session')
                    /\ \A f \in Fields \ AssignedBy(last', k) :
                        View(session')[k][f] = View(session)[k][f]
                    /\ \A f \in d.fields_set :
                        (\A j \in i + 1..Len(last'.items) :
                            ~(/\ last'.items[j][1] = k
                              /\ f \in last'.items[j][2].fields_set))
                        => View(session')[k][f] = d.values[f]

\* A call other than those of `others` that commits nothing leaves the store
\* and the staged work of before as they are, but for what it assigns itself.
StagedKept(others) ==
    (last'.op \notin others /\ Count(session'.calls, "commit") = 0) =>
        /\ session'.db = session.db
        /\ StagedKeys(session) \subseteq DOMAIN View(session')
        /\ \A k \in StagedKeys(session) : \A f \in Fields \ AssignedBy(last', k) :
            View(session')[k][f] = View(session)[k][f]

\* Between two calls nothing happens to the session.
StagedBetweenCalls == (last'.op = "none") => session' = [session EXCEPT !.calls = <<>>]

\* The commit of a write call that the store accepts persists the staged work
\* along with the call's own change, which prevails where the two meet: a
\* staged row the call deletes is not stored, a field the call assigns itself
\* is stored as the call set it.
StagedPersisted ==
    (Committing(last', session') /\ last'.ok) =>
        /\ result'.exc = ""
        /\ StagedKeys(session') = {}
        /\ \A k \in StagedKeys(session) :
            IF last'.op = "delete_by_pk" /\ last'.pk = k
            THEN k \notin DOMAIN session'.db
            ELSE /\ k \in DOMAIN session'.db
                 /\ \A f \in Fields \ AssignedBy(last', k) :
                        session'.db[k][f] = View(session)[k][f]
                 /\ \A f \in AssignedBy(last', k) :
                        session'.db[k][f] = AssignedValue(last', k, f)

\* The commit of a write call that the store refuses discards the staged work
\* together with the call's own change.
StagedDiscarded ==
    (Committing(last', session') /\ ~last'.ok) =>
        /\ result'.exc = "CommitFailed"
        /\ session'.db = session.db
        /\ StagedKeys(session') = {}
        /\ View(session') = session.db

\* refresh(item) puts the item back to what the open transaction holds of
\* it: the row as last flushed when a lookup or a query has flushed its staged
\* change, the committed row otherwise, which drops the change.  It makes no
\* commit and no rollback and leaves the rest of the staged work alone; an
\* instance that no flush has INSERTed yet is refused and stays as it is.
StagedRefreshed ==
    (last'.op = "refresh") =>
        LET k == last'.pk
        IN  /\ session'.calls = <<"refresh">>
            /\ session'.db = session.db
            /\ DOMAIN View(session') = DOMAIN View(session)
            /\ \A j \in DOMAIN View(session) \ {k} : View(session')[j] = View(session)[j]
            /\ IF Persistent(session, k)
               THEN /\ result' = Returns("none", <<>>)
                    /\ View(session')[k] =
                        IF k \in DOMAIN session.tx THEN session.tx[k] ELSE session.db[k]
               ELSE /\ result'.exc = "InvalidRequestError"
                    /\ View(session')[k] = View(session)[k]

\* C11 as claimed: what add_to_session(commit=False) stages is not among the
\* committed rows when the call returns; it stays staged until the next
\* commit a write call makes, whatever the service is asked in between, and
\* that commit persists it along with the call's own change when the store
\* accepts it; when the store refuses, the rollback discards it together with
\* that call's own change.
C11_StagedUntilCommit ==
    [][/\ StagedNotStored
       /\ StagedKept({"none"})
       /\ StagedBetweenCalls
       /\ StagedPersisted
       /\ StagedDiscarded]_vars

\* C11, amended: what add_to_session(commit=False) stages is not among the
\* committed rows when the call returns.  A later call that commits nothing
\* leaves it staged, but for the fields the call assigns itself; refresh(item)
\* is the exception: it puts the item back to what the open transaction holds
\* of it, so a staged change that no lookup or query has flushed is dropped
\* and a flushed one stays, while a staged new item that no flush has
\* INSERTed is refused with an error and stays staged; it commits nothing,
\* rolls nothing back and leaves the other staged items alone.  The next
\* commit of a write call that the store accepts persists what is then staged
\* along with the call's own change, which prevails where the two meet (a
\* staged item the call deletes is not stored, a field the call assigns is
\* stored as the call set it); when the store refuses, the rollback discards
\* the staged work together with the call's own change.
C11_StagedUnlessRefreshed ==
    [][/\ StagedNotStored
       /\ StagedKept({"none", "refresh"})
       /\ StagedRefreshed
       /\ StagedBetweenCalls
       /\ StagedPersisted
       /\ StagedDiscarded]_vars

\* Two items staged by add_to_session(commit=False), a changed row and a new
\* one, reached the store together with the commit of a later
\* add_to_session(commit=True) that had no item of its own.
C11_Witness ==
    /\ held = 2
    /\ last.op = "add_to_session" /\ last.commit /\ last.ok
    /\ last.items = <<>>
    /\ result.exc = ""
    /\ DOMAIN session.db = {1, 2}
    /\ session.db[1].name = "Bob"
    /\ session.db[2].name = "Ann"

====
